---- MODULE Spec2Model ----
(***************************************************************************)
(* GymBro: the turn-dispatch graph of src/agent/graph.py driven by the     *)
(* console loop of src/app.py.                                             *)
(*                                                                         *)
(* A text is a sequence of tokens (word fragments and blanks); substring   *)
(* search is contiguous-subsequence search over tokens, lower-casing is a  *)
(* token-wise map, stripping removes blank tokens at both ends.            *)
(***************************************************************************)
EXTENDS Integers, Sequences, FiniteSets, TLC

VARIABLES
    native_tool_calling,    \* graph.py:68  configuration flag
    max_context_messages,   \* graph.py:67  configuration, window size
    messages,               \* checkpointed channel AgentState.messages (thread "1")
    fitness_level,          \* app.py:42    loop variable, copied into the state each turn
    fitness_goals,          \* app.py:43
    route,                  \* channel AgentState.route
    pc,                     \* position: input, route, chat, workout_tool, progress_tool, end, raised
    user_input,             \* app.py:49    the line read for the current turn
    hist0,                  \* history: messages as they were when the turn was submitted
    requests,               \* history: inference requests issued in the current turn
    executions,             \* history: tool executions started in the current turn
    returned,               \* history: the "messages" update returned by the node of this turn
    caught,                 \* history: chat_node's except clause absorbed an exception this turn
    shown,                  \* app.py:94-99 the text printed for the current turn, <<>> before it is
    fn_arg,                 \* argument of a function applied in isolation
    fn_res                  \* its result

vars == <<native_tool_calling, max_context_messages, messages, fitness_level,
          fitness_goals, route, pc, user_input, hist0, requests, executions,
          returned, caught, shown, fn_arg, fn_res>>

session_vars == <<native_tool_calling, max_context_messages, messages, fitness_level,
          fitness_goals, route, pc, user_input, hist0, requests, executions,
          returned, caught, shown>>

----------------------------------------------------------------------------
(* Bounds *)

MaxHistory == 3
MaxCtx == 2
MaxTextLen == 3
MaxExtractLen == 6
MaxStreamLen == 3

----------------------------------------------------------------------------
(* Text primitives *)

Blank == " "

\* str.lower(), token by token
Lower(tok) ==
    CASE tok = "ROUTINE"  -> "routine"
      [] tok = "Routine"  -> "routine"
      [] tok = "Track"    -> "track"
      [] tok = "Workout"  -> "workout"
      [] tok = "Beginner" -> "beginner"
      [] tok = "MUSCLE"   -> "muscle"
      [] OTHER            -> tok

LowerText(text) == [i \in 1..Len(text) |-> Lower(text[i])]

RECURSIVE LStrip(_)
LStrip(text) ==
    IF text # <<>> /\ Head(text) = Blank THEN LStrip(Tail(text)) ELSE text

RECURSIVE RStrip(_)
RStrip(text) ==
    IF text # <<>> /\ text[Len(text)] = Blank
    THEN RStrip(SubSeq(text, 1, Len(text) - 1))
    ELSE text

\* str.strip()
Strip(text) == RStrip(LStrip(text))

\* the Python test  kw in text
Contains(text, kw) ==
    \E i \in 1..(Len(text) - Len(kw) + 1) : SubSeq(text, i, i + Len(kw) - 1) = kw

\* any(kw in text for kw in kws)
AnyKeyword(text, kws) == \E kw \in kws : Contains(text, kw)

WorkoutKeywords ==
    { <<"workout", " ", "plan">>, <<"routine">>, <<"workout", " ", "routine">>,
      <<"training", " ", "plan">>, <<"program">> }

ProgressKeywords == { <<"progress">>, <<"report">>, <<"csv">>, <<"track">> }

----------------------------------------------------------------------------
(* Messages *)

HumanMessage(c)    == [role |-> "user", content |-> c, tool_call_id |-> ""]
AIMessage(c)       == [role |-> "assistant", content |-> c, tool_call_id |-> ""]
SystemMessage(c)   == [role |-> "system", content |-> c, tool_call_id |-> ""]
ToolMessage(c, id) == [role |-> "tool", content |-> c, tool_call_id |-> id]

\* a reducer that overwrites the channel with the update
add_messages_overwrites(left, right) == right

\* the add_messages reducer on messages that carry fresh ids: append in order
add_messages(left, right) == left \o right

RECURSIVE latest_user_text(_)
latest_user_text(msgs) ==
    IF msgs = <<>> THEN <<>>
    ELSE IF msgs[Len(msgs)].role = "user" THEN Strip(msgs[Len(msgs)].content)
    ELSE latest_user_text(SubSeq(msgs, 1, Len(msgs) - 1))

\* the keyword tests in the other order
keyword_route_progress_first(user_text) ==
    IF AnyKeyword(user_text, ProgressKeywords) THEN "progress_tool"
    ELSE IF AnyKeyword(user_text, WorkoutKeywords) THEN "workout_tool"
    ELSE "chat"

\* the two keyword tests shared by route_node and the fallback of chat_node
keyword_route(user_text) ==
    IF AnyKeyword(user_text, WorkoutKeywords) THEN "workout_tool"
    ELSE IF AnyKeyword(user_text, ProgressKeywords) THEN "progress_tool"
    ELSE "chat"

\* route_node classifying by keyword in both modes
route_node_route_ignores_mode(native, msgs) ==
    keyword_route(LowerText(latest_user_text(msgs)))

\* route_node: the value written to the route channel
route_node_route(native, msgs) ==
    IF native THEN "chat"
    ELSE keyword_route(LowerText(latest_user_text(msgs)))

\* a conditional edge that always leads to chat
should_continue_always_chat(r) == "chat"

should_continue(r) ==
    IF r = "workout_tool" THEN "workout_tool"
    ELSE IF r = "progress_tool" THEN "progress_tool"
    ELSE "chat"

----------------------------------------------------------------------------
(* Tool Registry *)

WORKOUT == "generate_workout_plan"
PROGRESS == "generate_progress_report"

\* result["message"] of tools.workout_plan.generate_workout_plan
WorkoutMessage == <<"WORKOUT_PLAN_SAVED">>

\* result["message"] of generate_progress_report
ProgressMessage == <<"PROGRESS_REPORT_SAVED">>

\* one started execution of a tool function; ok = FALSE when the file write raises
Execution(tool, level, goals, ok) ==
    [tool |-> tool, level |-> level, goals |-> goals, ok |-> ok]

\* x or d  on strings
OrElse(x, d) == IF x = "" THEN d ELSE x

----------------------------------------------------------------------------
(* Inference Client *)

\* list(messages)[k:]
PySliceFrom(msgs, k) ==
    LET n     == Len(msgs)
        start == IF k < 0 THEN (IF n + k < 0 THEN 0 ELSE n + k)
                 ELSE (IF k > n THEN n ELSE k)
    IN  SubSeq(msgs, start + 1, n)

\* the slice taken from the wrong end: list(messages)[:max_context_messages]
Window_oldest(msgs, maxn) ==
    SubSeq(msgs, 1, IF maxn < Len(msgs) THEN maxn ELSE Len(msgs))

\* list(messages)[-max_context_messages:]
Window(msgs, maxn) == PySliceFrom(msgs, 0 - maxn)

\* the {"role", "content"} entries of the request body
Payload(msgs) ==
    [i \in 1..Len(msgs) |-> [role |-> msgs[i].role, content |-> msgs[i].content]]

NoCalls == [present |-> FALSE, calls |-> <<>>]

\* what the endpoint does with a request: an error, or a text and tool calls
Failure == [ok |-> FALSE, text |-> <<>>, tool_calls |-> NoCalls]
Reply(text, tc) == [ok |-> TRUE, text |-> text, tool_calls |-> tc]

ModelTexts == { <<>>, <<"reply">> }

\* the "arguments" value of a directive, by kind:
\*   absent        no value (or an empty one)
\*   mapping       a mapping
\*   str_mapping   a string that decodes to a mapping
\*   undecodable   a string json.loads rejects
\*   non_mapping   a string that decodes to a list or a number
Arguments(kind, level, goals) ==
    [kind |-> kind, fitness_level |-> level, fitness_goals |-> goals]

NoArguments == Arguments("absent", "", "")

\* a tool-call directive: function name, arguments, id ("" when it has none)
Directive(name, args, id) == [name |-> name, args |-> args, id |-> id]

\* the batches of directives a response may carry
DirectiveLists ==
    LET w == Directive(WORKOUT, NoArguments, "call_w")
        x == Directive(WORKOUT, Arguments("non_mapping", "", ""), "call_x")
        p == Directive(PROGRESS, NoArguments, "call_p")
        b == Directive("bogus_tool", NoArguments, "call_b")
    IN  { <<w>>, <<p>>, <<b>>, <<x>>, <<p, w>>, <<b, p>>, <<p, x>> }

PlainOutcomes == { Reply(t, NoCalls) : t \in ModelTexts } \cup { Failure }

ToolOutcomes ==
    PlainOutcomes
    \cup { Reply(t, [present |-> TRUE, calls |-> ds]) : t \in ModelTexts, ds \in DirectiveLists }

\* one line of the streamed response body, by kind:
\*   blank       an empty line (iter_lines keep-alive)
\*   malformed   a line json.loads rejects
\*   json        an object with message.content, message.tool_calls and done
JsonChunk(content, tool_calls, done) ==
    [kind |-> "json", content |-> content, tool_calls |-> tool_calls, done |-> done]

BlankLine == [kind |-> "blank", content |-> <<>>, tool_calls |-> NoCalls, done |-> FALSE]

MalformedLine ==
    [kind |-> "malformed", content |-> <<>>, tool_calls |-> NoCalls, done |-> FALSE]

\* the loop  for line in resp.iter_lines()  from line i on; parts and tool_calls
\* are the loop's two accumulators; the result is what the call returns, or
\* ok = FALSE when json.loads raises
RECURSIVE read_lines(_, _, _, _, _)
read_lines(with_tools, lines, i, parts, tool_calls) ==
    IF i > Len(lines)
    THEN [ok |-> TRUE, text |-> Strip(parts), tool_calls |-> tool_calls]
    ELSE
      LET line == lines[i]
      IN  IF line.kind = "blank"
          THEN read_lines(with_tools, lines, i + 1, parts, tool_calls)
          ELSE IF line.kind = "malformed" THEN Failure
          ELSE
            LET parts2 == IF line.content # <<>> THEN parts \o line.content ELSE parts
                calls2 == IF with_tools /\ line.tool_calls.present
                             /\ line.tool_calls.calls # <<>>
                          THEN line.tool_calls ELSE tool_calls
            IN  IF line.done
                THEN [ok |-> TRUE, text |-> Strip(parts2), tool_calls |-> calls2]
                ELSE read_lines(with_tools, lines, i + 1, parts2, calls2)

\* the stream read to its end, whatever its done markers say
read_stream_past_done(with_tools, lines) ==
    read_lines(with_tools,
               [i \in 1..Len(lines) |-> [lines[i] EXCEPT !.done = FALSE]],
               1, <<>>, NoCalls)

\* the body of both clients after raise_for_status: parts = [], tool_calls = None
read_stream(with_tools, lines) == read_lines(with_tools, lines, 1, <<>>, NoCalls)

\* one request as issued: the list handed to the client, the windowed payload
\* put on the wire, whether tool schemas were attached, and the outcome
Request(with_tools, handed, maxn, outcome) ==
    [tools   |-> with_tools,
     handed  |-> handed,
     sent    |-> Payload(Window(handed, maxn)),
     ok      |-> outcome.ok,
     text    |-> outcome.text,
     tool_calls |-> IF with_tools THEN outcome.tool_calls ELSE NoCalls]

\* _ollama_chat(messages)
ollama_chat(handed, maxn, outcome) == Request(FALSE, handed, maxn, outcome)

\* _ollama_chat_with_tools(messages)
ollama_chat_with_tools(handed, maxn, outcome) == Request(TRUE, handed, maxn, outcome)

----------------------------------------------------------------------------
(* chat_node *)

\* the system message built at the top of chat_node
system_content(level, goals) ==
    <<"SYSTEM_PROMPT", "KEEP_CONCISE">>
    \o (IF level # "" THEN <<"LEVEL", level>> ELSE <<>>)
    \o (IF goals # "" THEN <<"GOALS", goals>> ELSE <<>>)

\* args = (call.get("function") or {}).get("arguments") or {}, then json.loads
\* of a string with {} on failure: the mapping the branches below call .get on
decode_args(args) ==
    CASE args.kind \in {"absent", "undecodable"} ->
             [is_mapping |-> TRUE, fitness_level |-> "", fitness_goals |-> ""]
      [] args.kind \in {"mapping", "str_mapping"} ->
             [is_mapping |-> TRUE, fitness_level |-> args.fitness_level,
              fitness_goals |-> args.fitness_goals]
      [] OTHER ->
             [is_mapping |-> FALSE, fitness_level |-> "", fitness_goals |-> ""]

\* what one pass through a part of chat_node leaves behind
Path(reqs, execs, ret, exc) ==
    [requests |-> reqs, executions |-> execs, returned |-> ret, exc |-> exc]

\* the loop that puts each new tool message ahead of the earlier ones
RECURSIVE process_calls_newest_first(_, _, _, _, _, _)
process_calls_newest_first(calls, i, level, goals, fail_at, acc) ==
    IF i > Len(calls) THEN acc
    ELSE
      LET call == calls[i]
          args == decode_args(call.args)
      IN  IF call.name = WORKOUT THEN
            IF ~args.is_mapping THEN [acc EXCEPT !.exc = TRUE]
            ELSE
              LET lvl == OrElse(args.fitness_level, OrElse(level, "intermediate"))
                  gls == OrElse(args.fitness_goals, OrElse(goals, "general fitness"))
                  ok  == fail_at # i
                  ran == Append(acc.executions, Execution(WORKOUT, lvl, gls, ok))
              IN  IF ~ok THEN [acc EXCEPT !.executions = ran, !.exc = TRUE]
                  ELSE process_calls_newest_first(calls, i + 1, level, goals, fail_at,
                         [acc EXCEPT !.executions = ran,
                                     !.returned = <<ToolMessage(WorkoutMessage, call.id)>> \o @])
          ELSE IF call.name = PROGRESS THEN
              LET ok  == fail_at # i
                  ran == Append(acc.executions, Execution(PROGRESS, "", "", ok))
              IN  IF ~ok THEN [acc EXCEPT !.executions = ran, !.exc = TRUE]
                  ELSE process_calls_newest_first(calls, i + 1, level, goals, fail_at,
                         [acc EXCEPT !.executions = ran,
                                     !.returned = <<ToolMessage(ProgressMessage, call.id)>> \o @])
          ELSE process_calls_newest_first(calls, i + 1, level, goals, fail_at, acc)

\* the loop  for call in tool_calls  from directive i on; fail_at is the position
\* of the directive whose tool's file write raises (0: none does).
\* acc.returned collects out_messages.
RECURSIVE process_calls(_, _, _, _, _, _)
process_calls(calls, i, level, goals, fail_at, acc) ==
    IF i > Len(calls) THEN acc
    ELSE
      LET call == calls[i]
          args == decode_args(call.args)
      IN  IF call.name = WORKOUT THEN
            IF ~args.is_mapping THEN [acc EXCEPT !.exc = TRUE]
            ELSE
              LET lvl == OrElse(args.fitness_level, OrElse(level, "intermediate"))
                  gls == OrElse(args.fitness_goals, OrElse(goals, "general fitness"))
                  ok  == fail_at # i
                  ran == Append(acc.executions, Execution(WORKOUT, lvl, gls, ok))
              IN  IF ~ok THEN [acc EXCEPT !.executions = ran, !.exc = TRUE]
                  ELSE process_calls(calls, i + 1, level, goals, fail_at,
                         [acc EXCEPT !.executions = ran,
                                     !.returned = Append(@, ToolMessage(WorkoutMessage, call.id))])
          ELSE IF call.name = PROGRESS THEN
              LET ok  == fail_at # i
                  ran == Append(acc.executions, Execution(PROGRESS, "", "", ok))
              IN  IF ~ok THEN [acc EXCEPT !.executions = ran, !.exc = TRUE]
                  ELSE process_calls(calls, i + 1, level, goals, fail_at,
                         [acc EXCEPT !.executions = ran,
                                     !.returned = Append(@, ToolMessage(ProgressMessage, call.id))])
          ELSE process_calls(calls, i + 1, level, goals, fail_at, acc)

\* the follow-up whose reply is dropped in favour of the first call's text
followup_keeps_first_text(msgs, maxn, req1, loop) ==
    LET handed == msgs
                  \o (IF req1.text # <<>> THEN <<AIMessage(req1.text)>> ELSE <<>>)
                  \o loop.returned
    IN  { LET req2 == Request(FALSE, handed, maxn, o)
          IN  IF req2.ok
              THEN Path(<<req1, req2>>, loop.executions,
                        loop.returned \o <<AIMessage(req1.text)>>, FALSE)
              ELSE Path(<<req1, req2>>, loop.executions, <<>>, TRUE)
          : o \in PlainOutcomes }

\* if out_messages: the follow-up query and the return of line 291
followup(msgs, maxn, req1, loop) ==
    LET handed == msgs
                  \o (IF req1.text # <<>> THEN <<AIMessage(req1.text)>> ELSE <<>>)
                  \o loop.returned
    IN  { LET req2 == ollama_chat(handed, maxn, o)
          IN  IF req2.ok
              THEN Path(<<req1, req2>>, loop.executions,
                        loop.returned \o <<AIMessage(req2.text)>>, FALSE)
              ELSE Path(<<req1, req2>>, loop.executions, <<>>, TRUE)
          : o \in PlainOutcomes }

\* chat_node without its keyword dispatch: the model's text is always the reply
keyword_fallback_skipped(user_text, level, goals, req1, loop) ==
    { Path(<<req1>>, loop.executions, <<AIMessage(req1.text)>>, FALSE) }

\* lines 293-303: keyword dispatch inside chat_node, else the model's text
keyword_fallback(user_text, level, goals, req1, loop) ==
    IF AnyKeyword(user_text, WorkoutKeywords) THEN
        { LET ran == Append(loop.executions,
                       Execution(WORKOUT, OrElse(level, "intermediate"),
                                 OrElse(goals, "general fitness"), ok))
          IN  IF ok THEN Path(<<req1>>, ran, <<AIMessage(WorkoutMessage)>>, FALSE)
              ELSE Path(<<req1>>, ran, <<>>, TRUE)
          : ok \in BOOLEAN }
    ELSE IF AnyKeyword(user_text, ProgressKeywords) THEN
        { LET ran == Append(loop.executions, Execution(PROGRESS, "", "", ok))
          IN  IF ok THEN Path(<<req1>>, ran, <<AIMessage(ProgressMessage)>>, FALSE)
              ELSE Path(<<req1>>, ran, <<>>, TRUE)
          : ok \in BOOLEAN }
    ELSE { Path(<<req1>>, loop.executions, <<AIMessage(req1.text)>>, FALSE) }

\* the keyword dispatch reached even when the directives produced tool messages
after_reply_fallback_after_tools(msgs, user_text, level, goals, maxn, req1) ==
    LET tc    == req1.tool_calls
        start == Path(<<req1>>, <<>>, <<>>, FALSE)
        loops == IF tc.present /\ tc.calls # <<>>
                 THEN { process_calls(tc.calls, 1, level, goals, f, start)
                        : f \in 0..Len(tc.calls) }
                 ELSE { start }
    IN  UNION { IF loop.exc THEN { loop }
                ELSE keyword_fallback(user_text, level, goals, req1, loop)
                : loop \in loops }

\* lines 262-291 after a first reply: run the directives, then one of the above
after_reply(msgs, user_text, level, goals, maxn, req1) ==
    LET tc    == req1.tool_calls
        start == Path(<<req1>>, <<>>, <<>>, FALSE)
        loops == IF tc.present /\ tc.calls # <<>>
                 THEN { process_calls(tc.calls, 1, level, goals, f, start)
                        : f \in 0..Len(tc.calls) }
                 ELSE { start }
    IN  UNION { IF loop.exc THEN { loop }
                ELSE IF loop.returned # <<>> THEN followup(msgs, maxn, req1, loop)
                ELSE keyword_fallback(user_text, level, goals, req1, loop)
                : loop \in loops }

\* the try block of lines 259-303; exc marks a path left by an exception
native_paths(msgs, user_text, level, goals, maxn) ==
    UNION { LET req1 == ollama_chat_with_tools(msgs, maxn, o)
            IN  IF ~req1.ok THEN { Path(<<req1>>, <<>>, <<>>, TRUE) }
                ELSE after_reply(msgs, user_text, level, goals, maxn, req1)
            : o \in ToolOutcomes }

\* the plain chat call with no except clause ahead of it: an exception of the
\* native path leaves the node
plain_chat_uncaught(msgs, maxn, before) ==
    IF before.exc
    THEN { [requests |-> before.requests, executions |-> before.executions,
            returned |-> <<>>, caught |-> FALSE, raised |-> TRUE] }
    ELSE { LET req == Request(FALSE, msgs, maxn, o)
           IN  [requests   |-> Append(before.requests, req),
                executions |-> before.executions,
                returned   |-> IF req.ok THEN <<AIMessage(req.text)>> ELSE <<>>,
                caught     |-> FALSE,
                raised     |-> ~req.ok]
           : o \in PlainOutcomes }

\* the plain chat call returning the system message along with the reply
plain_chat_returns_system(msgs, maxn, before) ==
    { LET req == Request(FALSE, msgs, maxn, o)
      IN  [requests   |-> Append(before.requests, req),
           executions |-> before.executions,
           returned   |-> IF req.ok THEN <<msgs[1], AIMessage(req.text)>> ELSE <<>>,
           caught     |-> before.exc,
           raised     |-> ~req.ok]
      : o \in PlainOutcomes }

\* lines 307-308: the plain chat call, reached directly or after except: pass
plain_chat(msgs, maxn, before) ==
    { LET req == ollama_chat(msgs, maxn, o)
      IN  [requests   |-> Append(before.requests, req),
           executions |-> before.executions,
           returned   |-> IF req.ok THEN <<AIMessage(req.text)>> ELSE <<>>,
           caught     |-> before.exc,
           raised     |-> ~req.ok]
      : o \in PlainOutcomes }

\* every way chat_node can run on a state: its requests, its tool executions,
\* the messages it returns, whether its except clause absorbed an exception
\* and whether an exception leaves the node
chat_node_results(history, level, goals, native, maxn) ==
    LET msgs      == <<SystemMessage(system_content(level, goals))>> \o history
        user_text == LowerText(latest_user_text(history))
    IN  IF native
        THEN UNION { IF p.exc THEN plain_chat(msgs, maxn, p)
                     ELSE { [requests |-> p.requests, executions |-> p.executions,
                             returned |-> p.returned, caught |-> FALSE,
                             raised |-> FALSE] }
                     : p \in native_paths(msgs, user_text, level, goals, maxn) }
        ELSE plain_chat(msgs, maxn, Path(<<>>, <<>>, <<>>, FALSE))

----------------------------------------------------------------------------
(* Attribute Extractor *)

ExtractWindow == 5

\* the if/elif chains of one loop iteration on one message
level_of(content, current) ==
    IF Contains(content, <<"beginner">>) THEN "beginner"
    ELSE IF Contains(content, <<"intermediate">>) THEN "intermediate"
    ELSE IF Contains(content, <<"advanced">>) THEN "advanced"
    ELSE current

goals_of(content, current) ==
    IF Contains(content, <<"muscle">>) \/ Contains(content, <<"strength">>)
    THEN "build muscle"
    ELSE IF Contains(content, <<"weight">>) \/ Contains(content, <<"lose">>)
            \/ Contains(content, <<"fat">>)
    THEN "lose weight"
    ELSE IF Contains(content, <<"endurance">>) \/ Contains(content, <<"cardio">>)
    THEN "improve endurance"
    ELSE current

\* the loop  for msg in messages[-5:]  from position i on
RECURSIVE extract_loop(_, _, _, _)
extract_loop(window, i, level, goals) ==
    IF i > Len(window) THEN <<level, goals>>
    ELSE IF window[i].role = "user"
    THEN LET content == LowerText(window[i].content)
         IN  extract_loop(window, i + 1, level_of(content, level), goals_of(content, goals))
    ELSE extract_loop(window, i + 1, level, goals)

\* the extractor looping over every message instead of the last five
extract_fitness_info_whole_history(msgs) ==
    LET found == extract_loop(msgs, 1, "", "")
    IN  <<OrElse(found[1], "intermediate"), OrElse(found[2], "general fitness")>>

\* extract_fitness_info(messages) -> (fitness_level, fitness_goals)
extract_fitness_info(msgs) ==
    LET found == extract_loop(PySliceFrom(msgs, 0 - ExtractWindow), 1, "", "")
    IN  <<OrElse(found[1], "intermediate"), OrElse(found[2], "general fitness")>>

----------------------------------------------------------------------------
(* The session: app.main driving the compiled graph *)

\* the fixed sentence of app.py:99 and the error report of app.py:110
DefaultNotice == <<"PROCESSED_NOTICE">>
ErrorNotice == <<"ERROR">>

\* content and str(content).strip()
NonBlank(content) == content # <<>> /\ Strip(content) # <<>>

\* for msg in reversed(result["messages"]) from position i down: the first
\* assistant message with content ends the scan; the first tool message with
\* content met on the way is kept; <<>> stands for None
RECURSIVE scan_reply(_, _, _)
scan_reply(msgs, i, tool_result) ==
    IF i = 0 THEN [ai |-> <<>>, tool |-> tool_result]
    ELSE
      LET msg == msgs[i]
      IN  IF msg.role = "assistant" /\ NonBlank(msg.content)
          THEN [ai |-> msg.content, tool |-> tool_result]
          ELSE IF tool_result = <<>> /\ msg.role = "tool" /\ NonBlank(msg.content)
          THEN scan_reply(msgs, i - 1, msg.content)
          ELSE scan_reply(msgs, i - 1, tool_result)

\* app.py 78-99: what is printed after "Gymbro: "
select_reply(msgs) ==
    LET found == scan_reply(msgs, Len(msgs), <<>>)
    IN  IF found.ai # <<>> THEN found.ai
        ELSE IF found.tool # <<>> THEN found.tool
        ELSE DefaultNotice

\* lines the user types (other than the exit words and blank lines): small talk,
\* a level with a workout and a progress keyword, a progress and a goal keyword
UserInputs ==
    { <<"hello">>,
      <<"Beginner", " ", "Routine", " ", "report">>,
      <<" ", "track", " ", "MUSCLE">> }

ExitWords == { <<"exit">>, <<"quit">>, <<"bye">> }

Init ==
    /\ native_tool_calling \in BOOLEAN
    /\ max_context_messages \in 1..MaxCtx
    /\ messages = <<>>
    /\ fitness_level = "intermediate"
    /\ fitness_goals = "general fitness"
    /\ route = ""
    /\ pc = "input"
    /\ user_input = <<>>
    /\ hist0 = <<>>
    /\ requests = <<>>
    /\ executions = <<>>
    /\ returned = <<>>
    /\ caught = FALSE
    /\ shown = <<>>
    /\ fn_arg = <<>>
    /\ fn_res = <<>>

\* app.py 49-69: read a line, build the state update, enter agent.invoke;
\* the update is merged into the checkpointed state before the first node runs
Submit ==
    /\ pc = "input"
    /\ Len(messages) <= MaxHistory
    /\ \E line \in UserInputs :
         LET text == Strip(line)
         IN  /\ LowerText(text) \notin ExitWords
             /\ text # <<>>
             /\ user_input' = text
             /\ hist0' = messages
             /\ messages' = add_messages(messages, <<HumanMessage(text)>>)
    /\ requests' = <<>>
    /\ executions' = <<>>
    /\ returned' = <<>>
    /\ caught' = FALSE
    /\ shown' = <<>>
    /\ pc' = "route"
    /\ UNCHANGED <<native_tool_calling, max_context_messages, fitness_level,
                   fitness_goals, route, fn_arg, fn_res>>

\* the entry node and the conditional edge that follows it
route_node ==
    /\ pc = "route"
    /\ route' = route_node_route(native_tool_calling, messages)
    /\ pc' = should_continue(route')
    /\ UNCHANGED <<native_tool_calling, max_context_messages, messages, fitness_level,
                   fitness_goals, user_input, hist0, requests, executions, returned,
                   caught, shown, fn_arg, fn_res>>

chat_node ==
    /\ pc = "chat"
    /\ \E res \in chat_node_results(messages, fitness_level, fitness_goals,
                                    native_tool_calling, max_context_messages) :
         /\ requests' = res.requests
         /\ executions' = res.executions
         /\ returned' = res.returned
         /\ caught' = res.caught
         /\ messages' = IF res.raised THEN messages
                        ELSE add_messages(messages, res.returned)
         /\ pc' = IF res.raised THEN "raised" ELSE "end"
    /\ UNCHANGED <<native_tool_calling, max_context_messages, fitness_level,
                   fitness_goals, route, user_input, hist0, shown, fn_arg, fn_res>>

\* a tool node: one execution, whose message becomes the reply
tool_node_results(tool, level, goals, message) ==
    { [executions |-> <<Execution(tool, level, goals, ok)>>,
       returned   |-> IF ok THEN <<AIMessage(message)>> ELSE <<>>,
       raised     |-> ~ok]
      : ok \in BOOLEAN }

\* the workout tool run with the defaults, whatever the state holds
workout_tool_results_defaults(level, goals) ==
    tool_node_results(WORKOUT, "intermediate", "general fitness", WorkoutMessage)

\* workout_tool_node: level and goals read from the state, with their defaults
workout_tool_results(level, goals) ==
    tool_node_results(WORKOUT, OrElse(level, "intermediate"),
                      OrElse(goals, "general fitness"), WorkoutMessage)

progress_tool_results == tool_node_results(PROGRESS, "", "", ProgressMessage)

workout_tool_node ==
    /\ pc = "workout_tool"
    /\ \E res \in workout_tool_results(fitness_level, fitness_goals) :
         /\ executions' = res.executions
         /\ returned' = res.returned
         /\ messages' = IF res.raised THEN messages
                        ELSE add_messages(messages, res.returned)
         /\ pc' = IF res.raised THEN "raised" ELSE "end"
    /\ UNCHANGED <<native_tool_calling, max_context_messages, fitness_level,
                   fitness_goals, route, user_input, hist0, requests, caught,
                   shown, fn_arg, fn_res>>

progress_tool_node ==
    /\ pc = "progress_tool"
    /\ \E res \in progress_tool_results :
         /\ executions' = res.executions
         /\ returned' = res.returned
         /\ messages' = IF res.raised THEN messages
                        ELSE add_messages(messages, res.returned)
         /\ pc' = IF res.raised THEN "raised" ELSE "end"
    /\ UNCHANGED <<native_tool_calling, max_context_messages, fitness_level,
                   fitness_goals, route, user_input, hist0, requests, caught,
                   shown, fn_arg, fn_res>>

\* app.py 69-99: invoke returned; refresh the attributes from the whole history
\* and print the reply picked from result["messages"]
Finish ==
    /\ pc = "end"
    /\ shown' = select_reply(messages)
    /\ LET info == extract_fitness_info(messages)
       IN  /\ fitness_level' = IF info[1] # "" THEN info[1] ELSE fitness_level
           /\ fitness_goals' = IF info[2] # "" THEN info[2] ELSE fitness_goals
    /\ pc' = "input"
    /\ UNCHANGED <<native_tool_calling, max_context_messages, messages, route,
                   user_input, hist0, requests, executions, returned, caught,
                   fn_arg, fn_res>>

\* app.py 109-114: invoke raised; report the error and go on with the loop
HandleError ==
    /\ pc = "raised"
    /\ shown' = ErrorNotice
    /\ pc' = "input"
    /\ UNCHANGED <<native_tool_calling, max_context_messages, messages, fitness_level,
                   fitness_goals, route, user_input, hist0, requests, executions,
                   returned, caught, fn_arg, fn_res>>

Next ==
    \/ Submit
    \/ route_node
    \/ chat_node
    \/ workout_tool_node
    \/ progress_tool_node
    \/ Finish
    \/ HandleError

Spec == Init /\ [][Next]_vars

----------------------------------------------------------------------------
(* Functions applied in isolation *)

RECURSIVE SeqsUpTo(_, _)
SeqsUpTo(S, n) ==
    IF n = 0 THEN { <<>> }
    ELSE LET shorter == SeqsUpTo(S, n - 1)
         IN  shorter \cup { Append(q, x) : q \in shorter, x \in S }

\* the session variables, at rest
SessionIdle ==
    /\ native_tool_calling = FALSE
    /\ max_context_messages = 1
    /\ messages = <<>>
    /\ fitness_level = "intermediate"
    /\ fitness_goals = "general fitness"
    /\ route = ""
    /\ pc = "idle"
    /\ user_input = <<>>
    /\ hist0 = <<>>
    /\ requests = <<>>
    /\ executions = <<>>
    /\ returned = <<>>
    /\ caught = FALSE
    /\ shown = <<>>

RouteVocabulary ==
    { "workout", " ", "plan", "routine", "training", "program",
      "progress", "report", "csv", "track", "hello", "ROUTINE", "Track" }

RouteTexts == SeqsUpTo(RouteVocabulary, MaxTextLen)

\* histories whose latest user message carries the text: alone, or with older
\* user messages before it and an assistant message after it
RouteHistories(text) ==
    { <<HumanMessage(text)>>,
      <<HumanMessage(<<"program">>), AIMessage(<<"report">>),
        HumanMessage(text), AIMessage(<<"routine">>)>> }

InitRoute ==
    /\ SessionIdle
    /\ \E text \in RouteTexts :
         \E h \in RouteHistories(text) : fn_arg = [text |-> text, history |-> h]
    /\ fn_res = "pending"

\* route_node in keyword mode on a state holding the history
ApplyRoute ==
    /\ fn_res = "pending"
    /\ fn_res' = route_node_route(FALSE, fn_arg.history)
    /\ UNCHANGED <<fn_arg, session_vars>>

RouteSpec == InitRoute /\ [][ApplyRoute]_vars

ExtractMessages ==
    { HumanMessage(<<"Beginner">>),
      HumanMessage(<<"advanced", " ", "fat">>),
      HumanMessage(<<"cardio">>),
      HumanMessage(<<"hello">>),
      HumanMessage(<<"advanced", " ", "beginner", " ", "lose", " ", "strength">>),
      AIMessage(<<"intermediate", " ", "muscle">>) }

InitExtract ==
    /\ SessionIdle
    /\ fn_arg \in SeqsUpTo(ExtractMessages, MaxExtractLen)
    /\ fn_res = <<"pending", "pending">>

ApplyExtract ==
    /\ fn_res = <<"pending", "pending">>
    /\ fn_res' = extract_fitness_info(fn_arg)
    /\ UNCHANGED <<fn_arg, session_vars>>

ExtractSpec == InitExtract /\ [][ApplyExtract]_vars

StreamContents == { <<>>, <<" ">>, <<"a">> }

StreamPayloads ==
    { NoCalls,
      [present |-> TRUE, calls |-> <<>>],
      [present |-> TRUE, calls |-> <<Directive(PROGRESS, NoArguments, "call_p")>>] }

\* the lines a response stream is made of
StreamLines ==
    { JsonChunk(c, t, d) : c \in StreamContents, t \in StreamPayloads, d \in BOOLEAN }
    \cup { JsonChunk(<<"b">>, NoCalls, FALSE),
           JsonChunk(<<>>, [present |-> TRUE,
                            calls |-> <<Directive(WORKOUT, NoArguments, "call_w")>>],
                     FALSE),
           BlankLine,
           MalformedLine }

InitStream ==
    /\ SessionIdle
    /\ fn_arg \in SeqsUpTo(StreamLines, MaxStreamLen)
    /\ fn_res = [read |-> FALSE, plain |-> Failure, tools |-> Failure]

\* the same response body read by _ollama_chat and by _ollama_chat_with_tools
ApplyStream ==
    /\ ~fn_res.read
    /\ fn_res' = [read  |-> TRUE,
                  plain |-> read_stream(FALSE, fn_arg),
                  tools |-> read_stream(TRUE, fn_arg)]
    /\ UNCHANGED <<fn_arg, session_vars>>

StreamSpec == InitStream /\ [][ApplyStream]_vars

----------------------------------------------------------------------------
(* Claims *)

\* what the claims call containing a keyword, whatever the case of the letters
ContainsCI(text, kw) == Contains(LowerText(text), kw)

IsBlank(text) == \A i \in 1..Len(text) : text[i] = Blank

\* C1: keyword routing is a total, case-insensitive substring classification of
\* the latest user text: workout-tool when the text contains "workout plan",
\* "routine", "workout routine", "training plan" or "program" (whether or not it
\* also contains a progress keyword); progress-tool when it contains "progress",
\* "report", "csv" or "track" and no workout keyword; direct-chat otherwise,
\* and in particular for an empty or a blank text.
C1_KeywordRouting ==
    fn_res # "pending" =>
        LET text    == fn_arg.text
            workout == \/ ContainsCI(text, <<"workout", " ", "plan">>)
                       \/ ContainsCI(text, <<"routine">>)
                       \/ ContainsCI(text, <<"workout", " ", "routine">>)
                       \/ ContainsCI(text, <<"training", " ", "plan">>)
                       \/ ContainsCI(text, <<"program">>)
            progress == \/ ContainsCI(text, <<"progress">>)
                        \/ ContainsCI(text, <<"report">>)
                        \/ ContainsCI(text, <<"csv">>)
                        \/ ContainsCI(text, <<"track">>)
        IN  /\ fn_res \in {"workout_tool", "progress_tool", "chat"}
            /\ workout => fn_res = "workout_tool"
            /\ (progress /\ ~workout) => fn_res = "progress_tool"
            /\ (~progress /\ ~workout) => fn_res = "chat"
            /\ IsBlank(text) => fn_res = "chat"

\* C1 witness: a text with an upper-case workout keyword and a progress keyword,
\* after an older message, is routed to the workout tool
C1_Witness ==
    /\ fn_res = "workout_tool"
    /\ Len(fn_arg.history) > 1
    /\ Contains(fn_arg.text, <<"ROUTINE">>)
    /\ Contains(fn_arg.text, <<"track">>)

\* the keyword sets as the claims list them
MatchesWorkout(text) ==
    \/ ContainsCI(text, <<"workout", " ", "plan">>)
    \/ ContainsCI(text, <<"routine">>)
    \/ ContainsCI(text, <<"workout", " ", "routine">>)
    \/ ContainsCI(text, <<"training", " ", "plan">>)
    \/ ContainsCI(text, <<"program">>)

MatchesProgress(text) ==
    \/ ContainsCI(text, <<"progress">>)
    \/ ContainsCI(text, <<"report">>)
    \/ ContainsCI(text, <<"csv">>)
    \/ ContainsCI(text, <<"track">>)

\* the history a completed turn must leave: what was there, the user message,
\* the messages the node returned
TurnAppended == messages = hist0 \o <<HumanMessage(user_input)>> \o returned

TurnOver == pc \in {"end", "raised"}

\* C2: in keyword mode, a turn whose user text matches a tool keyword makes no
\* inference call, executes the matching tool exactly once and, once complete,
\* has appended exactly one assistant message, whose content is that tool's
\* summary.
C2_KeywordToolTurn ==
    (~native_tool_calling /\ TurnOver
       /\ (MatchesWorkout(user_input) \/ MatchesProgress(user_input))) =>
        LET tool    == IF MatchesWorkout(user_input) THEN WORKOUT ELSE PROGRESS
            summary == IF MatchesWorkout(user_input) THEN WorkoutMessage
                       ELSE ProgressMessage
        IN  /\ requests = <<>>
            /\ Len(executions) = 1
            /\ executions[1].tool = tool
            /\ pc = "end" =>
                 /\ executions[1].ok
                 /\ returned = <<AIMessage(summary)>>
                 /\ TurnAppended

\* C2 witness: a later keyword-mode turn answered by the workout tool alone
C2_Witness ==
    /\ ~native_tool_calling
    /\ pc = "end"
    /\ hist0 # <<>>
    /\ user_input = <<"Beginner", " ", "Routine", " ", "report">>
    /\ returned = <<AIMessage(WorkoutMessage)>>
    /\ requests = <<>>

\* the directives of the first response of the turn, <<>> when it has none
FirstDirectives ==
    IF requests # <<>> /\ requests[1].ok /\ requests[1].tool_calls.present
    THEN requests[1].tool_calls.calls
    ELSE <<>>

\* C3: in native mode, when the first response carries exactly one directive,
\* naming generate_progress_report, that tool is executed exactly once; and in a
\* turn that completes without an exception there is one tool-role message with
\* the tool's summary and the directive's id, then exactly one follow-up request,
\* without tool schemas, and the turn returns the tool-role message followed by
\* one assistant message holding the follow-up's text.
C3_NativeProgressDirective ==
    (native_tool_calling /\ TurnOver /\ Len(FirstDirectives) = 1
       /\ FirstDirectives[1].name = "generate_progress_report") =>
        /\ Len(executions) = 1
        /\ executions[1].tool = PROGRESS
        /\ requests[1].tools
        /\ (pc = "end" /\ ~caught) =>
             /\ Len(requests) = 2
             /\ ~requests[2].tools
             /\ requests[2].handed[Len(requests[2].handed)]
                  = ToolMessage(ProgressMessage, FirstDirectives[1].id)
             /\ returned = <<ToolMessage(ProgressMessage, FirstDirectives[1].id),
                             AIMessage(requests[2].text)>>
             /\ TurnAppended

\* C3 witness: the first response has no text, the follow-up answers "reply"
C3_Witness ==
    /\ native_tool_calling
    /\ pc = "end"
    /\ ~caught
    /\ Len(FirstDirectives) = 1
    /\ FirstDirectives[1].name = PROGRESS
    /\ requests[1].text = <<>>
    /\ Len(returned) = 2
    /\ returned[2] = AIMessage(<<"reply">>)

Registered(name) == name \in {"generate_workout_plan", "generate_progress_report"}

\* C4: in native mode, when every directive of the response names an
\* unregistered tool, the turn completes with the model's text as its reply, no
\* tool-role message is produced and no tool is executed, whatever the user text.
C4_UnregisteredIgnored ==
    (native_tool_calling /\ TurnOver /\ FirstDirectives # <<>>
       /\ \A i \in 1..Len(FirstDirectives) : ~Registered(FirstDirectives[i].name)) =>
        /\ ~caught
        /\ pc = "end"
        /\ executions = <<>>
        /\ returned = <<AIMessage(requests[1].text)>>

\* C5: in native mode, when the response carries no directive: if the user text
\* matches the keyword sets the matching tool (workout before progress) is
\* dispatched exactly once and, in a turn that completes without an exception,
\* its summary is the single assistant reply and no further inference call is
\* made; otherwise the text of that single call is the single assistant reply.
C5_NativeNoDirective ==
    (native_tool_calling /\ TurnOver /\ requests # <<>> /\ requests[1].ok
       /\ ~requests[1].tool_calls.present) =>
        IF MatchesWorkout(user_input) \/ MatchesProgress(user_input)
        THEN /\ Len(executions) = 1
             /\ executions[1].tool =
                  (IF MatchesWorkout(user_input) THEN WORKOUT ELSE PROGRESS)
             /\ (pc = "end" /\ ~caught) =>
                  /\ Len(requests) = 1
                  /\ returned = <<AIMessage(IF MatchesWorkout(user_input)
                                            THEN WorkoutMessage ELSE ProgressMessage)>>
                  /\ TurnAppended
        ELSE /\ executions = <<>>
             /\ Len(requests) = 1
             /\ pc = "end"
             /\ ~caught
             /\ returned = <<AIMessage(requests[1].text)>>
             /\ TurnAppended

\* C5 witness: the model answers in text, the text asks for tracking
C5_Witness ==
    /\ native_tool_calling
    /\ pc = "end"
    /\ ~caught
    /\ requests # <<>>
    /\ requests[1].ok
    /\ ~requests[1].tool_calls.present
    /\ requests[1].text = <<"reply">>
    /\ user_input = <<"track", " ", "MUSCLE">>
    /\ returned = <<AIMessage(ProgressMessage)>>

\* the messages chat_node starts from: the fresh system message, then the history
BaseMessages ==
    <<SystemMessage(system_content(fitness_level, fitness_goals))>>
    \o hist0 \o <<HumanMessage(user_input)>>

LastRequest == requests[Len(requests)]

\* an exception was raised inside the native path of this turn: the call with
\* tool schemas failed, a tool's file write failed, the arguments of a workout
\* directive were no mapping, or the follow-up query failed
NativeException ==
    \/ ~requests[1].ok
    \/ \E i \in 1..Len(executions) : ~executions[i].ok
    \/ \E i \in 1..Len(FirstDirectives) :
          /\ FirstDirectives[i].name = WORKOUT
          /\ FirstDirectives[i].args.kind = "non_mapping"
    \/ /\ Len(requests) >= 2
       /\ ~requests[2].ok
       /\ requests[2].handed[Len(requests[2].handed)].role = "tool"

\* C6: in native mode, an exception raised in the native path (the call with
\* tool schemas, the handling of the directives, a tool's file write, the
\* follow-up query, the keyword fallback) is absorbed and followed by exactly one
\* plain request, without tool schemas, over the system message and the history;
\* if that request succeeds the turn completes with exactly one assistant
\* message, equal to its text; an exception reaches the caller only from that
\* plain request.
C6_NativeExceptionFallback ==
    (native_tool_calling /\ TurnOver) =>
        /\ NativeException => caught
        /\ caught =>
             /\ Len(requests) \in {2, 3}
             /\ requests[1].tools
             /\ Len(requests) = 3 => (~requests[2].tools /\ ~requests[2].ok)
             /\ ~LastRequest.tools
             /\ LastRequest.handed = BaseMessages
             /\ LastRequest.ok =>
                  /\ pc = "end"
                  /\ returned = <<AIMessage(LastRequest.text)>>
                  /\ TurnAppended
        /\ pc = "raised" => (caught /\ ~LastRequest.ok)

\* C6 witness: the tool ran, the follow-up failed, the plain request answered
C6_Witness ==
    /\ native_tool_calling
    /\ pc = "end"
    /\ caught
    /\ Len(requests) = 3
    /\ Len(executions) = 1
    /\ executions[1].ok
    /\ returned = <<AIMessage(<<"reply">>)>>

\* C7: in both modes, when the plain chat call fails the failure reaches the
\* caller and the message history is what it was before the turn was submitted.
C7_FailedTurnLeavesHistory ==
    (TurnOver /\ requests # <<>> /\ ~LastRequest.tools /\ ~LastRequest.ok) =>
        /\ pc = "raised"
        /\ messages = hist0

\* C8: every request carries at most max_context_messages messages, and when
\* the list handed to the client is longer, exactly its most recent
\* max_context_messages messages in their order; the follow-up and fallback
\* requests included.
C8_RequestWindow ==
    \A i \in 1..Len(requests) :
        LET r == requests[i]
            n == max_context_messages
            k == Len(r.handed)
        IN  n > 0 =>
              /\ Len(r.sent) <= n
              /\ k > n =>
                   /\ Len(r.sent) = n
                   /\ \A j \in 1..n :
                        /\ r.sent[j].role = r.handed[k - n + j].role
                        /\ r.sent[j].content = r.handed[k - n + j].content

\* C8 witness: a follow-up request over more messages than the window holds,
\* cut down to the model's text and the tool message
C8_Witness ==
    /\ max_context_messages = 2
    /\ Len(requests) >= 2
    /\ ~requests[2].tools
    /\ Len(requests[2].handed) >= 4
    /\ requests[2].sent[1].role = "assistant"
    /\ requests[2].sent[2].role = "tool"

LevelKeywords == {"beginner", "intermediate", "advanced"}

GoalKeywords ==
    {"muscle", "strength", "weight", "lose", "fat", "endurance", "cardio"}

\* the goal a goal keyword stands for
GoalFor(kw) ==
    CASE kw \in {"muscle", "strength"}    -> "build muscle"
      [] kw \in {"weight", "lose", "fat"} -> "lose weight"
      [] OTHER                            -> "improve endurance"

\* positions of the most recent five messages of a list
RecentFive(msgs) == { i \in 1..Len(msgs) : i > Len(msgs) - 5 }

\* positions, among the most recent five, of user messages with a keyword
UsersWith(msgs, kws) ==
    { i \in RecentFive(msgs) :
        /\ msgs[i].role = "user"
        /\ \E kw \in kws : ContainsCI(msgs[i].content, <<kw>>) }

Latest(S) == CHOOSE i \in S : \A j \in S : j <= i

\* C9: when none of the examined messages contains a level keyword
\* (respectively a goal keyword), the extraction that ends a turn leaves the
\* session's fitness_level (respectively fitness_goals) as it was.
C9_ExtractionKeepsCurrent ==
    [][ (pc = "end" /\ pc' = "input") =>
          /\ UsersWith(messages, LevelKeywords) = {} => fitness_level' = fitness_level
          /\ UsersWith(messages, GoalKeywords) = {} => fitness_goals' = fitness_goals
      ]_vars

\* C10: extraction looks at the most recent five messages only, at user
\* messages only, and the level (the goals) it returns is the one given by the
\* last of them that contains a level (a goal) keyword; with no such message in
\* the window the result is the default, whatever older messages say.
C10_ExtractWindow ==
    fn_res # <<"pending", "pending">> =>
        LET ul == UsersWith(fn_arg, LevelKeywords)
            ug == UsersWith(fn_arg, GoalKeywords)
        IN  /\ IF ul = {} THEN fn_res[1] = "intermediate"
               ELSE \E kw \in LevelKeywords :
                       /\ ContainsCI(fn_arg[Latest(ul)].content, <<kw>>)
                       /\ fn_res[1] = kw
            /\ IF ug = {} THEN fn_res[2] = "general fitness"
               ELSE \E kw \in GoalKeywords :
                       /\ ContainsCI(fn_arg[Latest(ug)].content, <<kw>>)
                       /\ fn_res[2] = GoalFor(kw)

\* C10 witness: six messages; the oldest, outside the window, says beginner, a
\* later user message gives the level, a still later one the goal, and the
\* assistant's keywords at the end count for nothing
C10_Witness ==
    /\ Len(fn_arg) = 6
    /\ fn_arg[1] = HumanMessage(<<"Beginner">>)
    /\ fn_arg[3] = HumanMessage(<<"advanced", " ", "fat">>)
    /\ fn_arg[4] = HumanMessage(<<"cardio">>)
    /\ fn_arg[5] = HumanMessage(<<"hello">>)
    /\ fn_arg[6] = AIMessage(<<"intermediate", " ", "muscle">>)
    /\ fn_res = <<"advanced", "improve endurance">>

IsPrefix(a, b) == Len(a) <= Len(b) /\ SubSeq(b, 1, Len(a)) = a

\* the names of the registered tools among directives, in their order
RECURSIVE RegisteredNames(_)
RegisteredNames(ds) ==
    IF ds = <<>> THEN <<>>
    ELSE (IF Registered(Head(ds).name) THEN <<Head(ds).name>> ELSE <<>>)
         \o RegisteredNames(Tail(ds))

\* the tools whose execution was started in this turn, in order
ToolsRun == [i \in 1..Len(executions) |-> executions[i].tool]

\* the tool the keyword sets select for the user text of this turn, if any
KeywordTools ==
    IF MatchesWorkout(user_input) THEN <<WORKOUT>>
    ELSE IF MatchesProgress(user_input) THEN <<PROGRESS>>
    ELSE <<>>

\* C11: within a turn every request to run a tool is executed at most once and,
\* in a turn that completes without an exception, exactly once: a keyword-routed
\* turn runs its one tool; in native mode the executions follow the registered
\* directives one for one, the keyword dispatch runs a tool only when no
\* directive named a registered tool, and nothing is executed after an
\* execution has failed.
C11_OneExecutionPerRequest ==
    TurnOver =>
        LET asked == RegisteredNames(FirstDirectives)
        IN  /\ \A i \in 1..Len(executions) : i < Len(executions) => executions[i].ok
            /\ IF ~native_tool_calling THEN ToolsRun = KeywordTools
               ELSE IF asked # <<>>
               THEN /\ IsPrefix(ToolsRun, asked)
                    /\ (pc = "end" /\ ~caught) => ToolsRun = asked
               ELSE /\ IsPrefix(ToolsRun, KeywordTools)
                    /\ (pc = "end" /\ ~caught) => ToolsRun = KeywordTools

\* C11 witness: the user asks for tracking, the model asks for the report tool:
\* one execution
C11_Witness ==
    /\ native_tool_calling
    /\ pc = "end"
    /\ ~caught
    /\ MatchesProgress(user_input)
    /\ RegisteredNames(FirstDirectives) = <<PROGRESS>>
    /\ ToolsRun = <<PROGRESS>>
    /\ Len(returned) = 2

\* the number of system-role messages in a list of messages
SystemCount(msgs) == Cardinality({ i \in 1..Len(msgs) : msgs[i].role = "system" })

\* C12: in either mode and after any number of turns the session history holds
\* no system-role message, and every request of a turn is built from a list with
\* exactly one system-role message, the one built in this turn from the
\* session's current attributes, so that the payload sent holds at most one.
C12_SystemMessageNotPersisted ==
    /\ \A i \in 1..Len(messages) : messages[i].role # "system"
    /\ \A i \in 1..Len(requests) :
          /\ SystemCount(requests[i].handed) = 1
          /\ SystemCount(requests[i].sent) <= 1
          /\ pc # "input" =>
                requests[i].handed[1]
                  = SystemMessage(system_content(fitness_level, fitness_goals))

\* C12 witness: a later turn completed by the model; its request was built
\* from the system message and a history of earlier turns
C12_Witness ==
    /\ pc = "end"
    /\ Len(hist0) >= 2
    /\ requests # <<>>
    /\ requests[1].handed[1].role = "system"
    /\ Len(requests[1].handed) = Len(hist0) + 2
    /\ Len(messages) = Len(hist0) + 1 + Len(returned)
    /\ returned # <<>>

\* a request of DirectChat: no tool schemas, over the system message and the
\* history with the user message of this turn
IsDirectChat(r) == ~r.tools /\ r.handed = BaseMessages

\* C13: every DirectChat request sent to the endpoint has the freshly built
\* system message as its first message, followed by the most recent messages of
\* the history, whatever the length of the history.
C13_SystemMessageFirst ==
    pc # "input" =>
      \A i \in 1..Len(requests) :
        IsDirectChat(requests[i]) =>
          /\ requests[i].sent # <<>>
          /\ requests[i].sent[1]
               = [role    |-> "system",
                  content |-> system_content(fitness_level, fitness_goals)]
          /\ \A j \in 2..Len(requests[i].sent) : requests[i].sent[j].role # "system"

\* the node Routing selects for this turn
SelectedNode ==
    IF native_tool_calling THEN "chat"
    ELSE IF MatchesWorkout(user_input) THEN "workout_tool"
    ELSE IF MatchesProgress(user_input) THEN "progress_tool"
    ELSE "chat"

NodeStates == {"chat", "workout_tool", "progress_tool"}

\* C14: every turn starts in Routing (pc = "route"), Routing hands over to
\* exactly one of DirectChat, WorkoutTool, ProgressTool (the keyword class in
\* keyword mode, always DirectChat in native mode), that node hands over to Done
\* (pc = "end") unless its last inference call or the file write of its tool
\* failed, in which case the turn is abandoned; no node is entered twice, and
\* from Done the graph takes no step: the next step waits for the next user
\* message and leaves history and route as they are.
C14_TurnStateMachine ==
    [][ /\ pc = "input" => pc' = "route"
        /\ pc = "route" => (pc' = SelectedNode /\ route' = SelectedNode)
        /\ pc \in NodeStates =>
             /\ pc' \in {"end", "raised"}
             /\ pc' = "raised" <=>
                  \/ requests' # <<>> /\ ~requests'[Len(requests')].ok
                  \/ pc # "chat" /\ ~executions'[1].ok
        /\ pc \in {"end", "raised"} =>
             /\ pc' = "input"
             /\ UNCHANGED <<messages, route, requests, executions, returned>>
      ]_vars

\* C14 witness: a native-mode turn whose text holds a workout keyword went
\* through DirectChat to Done
C14_Witness ==
    /\ native_tool_calling
    /\ pc = "end"
    /\ route = "chat"
    /\ MatchesWorkout(user_input)
    /\ hist0 # <<>>
    /\ requests # <<>>

\* the tool-role messages the registered directives among ds produce, in order
RECURSIVE ExpectedToolMessages(_)
ExpectedToolMessages(ds) ==
    IF ds = <<>> THEN <<>>
    ELSE (IF Head(ds).name = WORKOUT
          THEN <<ToolMessage(WorkoutMessage, Head(ds).id)>>
          ELSE IF Head(ds).name = PROGRESS
          THEN <<ToolMessage(ProgressMessage, Head(ds).id)>>
          ELSE <<>>)
         \o ExpectedToolMessages(Tail(ds))

\* C15: in native mode, when the response carries several directives, the tools
\* run in the order of the directives; and in a turn that completes without an
\* exception after at least one registered directive, the follow-up query is
\* made over the original messages, the model's own text if it is not empty,
\* and the tool-role messages in directive order, and the turn returns those
\* tool-role messages in the same order ahead of the one final assistant reply.
C15_DirectiveOrder ==
    (native_tool_calling /\ TurnOver /\ Len(FirstDirectives) >= 2) =>
        /\ RegisteredNames(FirstDirectives) # <<>> =>
             IsPrefix(ToolsRun, RegisteredNames(FirstDirectives))
        /\ (pc = "end" /\ ~caught /\ RegisteredNames(FirstDirectives) # <<>>) =>
             LET tool_msgs == ExpectedToolMessages(FirstDirectives)
             IN  /\ ToolsRun = RegisteredNames(FirstDirectives)
                 /\ Len(requests) = 2
                 /\ requests[2].handed
                      = BaseMessages
                        \o (IF requests[1].text # <<>>
                            THEN <<AIMessage(requests[1].text)>> ELSE <<>>)
                        \o tool_msgs
                 /\ returned = tool_msgs \o <<AIMessage(requests[2].text)>>

\* C15 witness: the report directive came before the workout directive, the
\* model also sent text of its own
C15_Witness ==
    /\ native_tool_calling
    /\ pc = "end"
    /\ ~caught
    /\ Len(FirstDirectives) = 2
    /\ requests[1].text = <<"reply">>
    /\ ToolsRun = <<PROGRESS, WORKOUT>>
    /\ Len(returned) = 3
    /\ returned[1].tool_call_id = FirstDirectives[1].id
    /\ returned[2].tool_call_id = FirstDirectives[2].id
    /\ returned[3].role = "assistant"

IsJson(line) == line.kind = "json"

\* the position of the first chunk marked done, the length of the stream when
\* no chunk is
FirstDone(lines) ==
    IF \E i \in 1..Len(lines) : IsJson(lines[i]) /\ lines[i].done
    THEN CHOOSE i \in 1..Len(lines) :
           /\ IsJson(lines[i]) /\ lines[i].done
           /\ \A j \in 1..(i - 1) : ~(IsJson(lines[j]) /\ lines[j].done)
    ELSE Len(lines)

\* the text fragments of the well-formed chunks among the first n lines, joined
\* in arrival order
RECURSIVE Fragments(_, _)
Fragments(lines, n) ==
    IF n = 0 THEN <<>>
    ELSE Fragments(lines, n - 1)
         \o (IF IsJson(lines[n]) THEN lines[n].content ELSE <<>>)

HasPayload(line) ==
    IsJson(line) /\ line.tool_calls.present /\ line.tool_calls.calls # <<>>

\* the last non-empty tool-call payload among the first n lines, absent if none
LastPayload(lines, n) ==
    IF \E i \in 1..n : HasPayload(lines[i])
    THEN lines[CHOOSE i \in 1..n :
                 HasPayload(lines[i]) /\ \A j \in (i + 1)..n : ~HasPayload(lines[j])
              ].tool_calls
    ELSE NoCalls

\* a malformed line is met before the done marker
MalformedRead(lines) ==
    \E i \in 1..FirstDone(lines) : lines[i].kind = "malformed"

StreamRead == fn_res.read

\* C16 as stated: on every stream of well-formed chunks the text returned is
\* the concatenation of the fragments up to the first done chunk, and the
\* tool_calls reported are the last non-empty payload among them, else absent.
C16_ExactConcatenation ==
    (StreamRead /\ \A i \in 1..Len(fn_arg) : fn_arg[i].kind # "malformed") =>
        LET n == FirstDone(fn_arg)
        IN  /\ fn_res.plain.ok
            /\ fn_res.tools.ok
            /\ fn_res.plain.text = Fragments(fn_arg, n)
            /\ fn_res.tools.text = Fragments(fn_arg, n)
            /\ fn_res.tools.tool_calls = LastPayload(fn_arg, n)

\* C16 amended: both clients return exactly when no malformed line is met up to
\* the first done chunk; the text returned is then the concatenation, in
\* arrival order, of the fragments up to and including that chunk, with leading
\* and trailing whitespace removed, nothing after the done chunk counts, and the
\* tool_calls of the client with tool schemas are the last non-empty payload
\* among those chunks, absent (not an empty collection) when there is none.
C16_StrippedConcatenation ==
    StreamRead =>
        LET n == FirstDone(fn_arg)
        IN  /\ fn_res.plain.ok <=> ~MalformedRead(fn_arg)
            /\ fn_res.tools.ok <=> ~MalformedRead(fn_arg)
            /\ ~MalformedRead(fn_arg) =>
                 /\ fn_res.plain.text = Strip(Fragments(fn_arg, n))
                 /\ fn_res.tools.text = Strip(Fragments(fn_arg, n))
                 /\ fn_res.tools.tool_calls = LastPayload(fn_arg, n)
                 /\ fn_res.plain.tool_calls = NoCalls
                 /\ fn_res.tools.tool_calls.present =>
                      fn_res.tools.tool_calls.calls # <<>>

\* C16 witness: a blank fragment with a payload, then the done chunk with text
\* and an empty payload, then a chunk that no longer counts
C16_Witness ==
    /\ StreamRead
    /\ Len(fn_arg) = 3
    /\ fn_arg[1] = JsonChunk(<<" ">>, [present |-> TRUE,
                       calls |-> <<Directive(PROGRESS, NoArguments, "call_p")>>], FALSE)
    /\ fn_arg[2] = JsonChunk(<<"a">>, [present |-> TRUE, calls |-> <<>>], TRUE)
    /\ fn_arg[3] = JsonChunk(<<"b">>, NoCalls, FALSE)
    /\ fn_res.tools.text = <<"a">>
    /\ fn_res.tools.tool_calls.present

\* C17: a malformed chunk met before the done marker is skipped: both clients
\* still return, with the text of the well-formed chunks before and after it.
C17_MalformedSkipped ==
    (StreamRead /\ MalformedRead(fn_arg)) =>
        /\ fn_res.plain.ok
        /\ fn_res.tools.ok
        /\ fn_res.plain.text = Strip(Fragments(fn_arg, FirstDone(fn_arg)))
        /\ fn_res.tools.text = Strip(Fragments(fn_arg, FirstDone(fn_arg)))

\* C18: the message history is append-only: every step leaves the history it
\* found as a prefix of the history it leaves, so no message is ever modified,
\* removed or reordered and the history after a turn starts with the history
\* before it; and a turn that completes has extended the history by the user
\* message followed by the messages the graph returned for the turn, in order.
C18_HistoryAppendOnly ==
    [][ /\ IsPrefix(messages, messages')
        /\ pc' \in {"end", "raised"} => IsPrefix(hist0', messages')
        /\ pc' = "end" =>
             messages' = hist0' \o <<HumanMessage(user_input')>> \o returned'
      ]_vars

\* C18 witness: a turn that returned a tool message and a reply, after an
\* earlier complete turn
C18_Witness ==
    /\ pc = "end"
    /\ Len(hist0) >= 2
    /\ Len(returned) = 2
    /\ returned[1].role = "tool"
    /\ Len(messages) = Len(hist0) + 3
    /\ SubSeq(messages, 1, Len(hist0)) = hist0

\* the kinds of arguments the claim wants tolerated as empty
ToleratedKinds == {"absent", "undecodable", "non_mapping"}

\* C19: in native mode, when the first directive of the response names a
\* registered tool and its arguments are absent, undecodable or no mapping, the
\* tool is executed all the same (the workout tool with the session's level and
\* goals, or the defaults), and a turn that completes without an exception
\* returns first a tool-role message carrying the directive's call id.
C19_ArgumentsTolerated ==
    (native_tool_calling /\ TurnOver /\ FirstDirectives # <<>>
       /\ Registered(FirstDirectives[1].name)
       /\ FirstDirectives[1].args.kind \in ToleratedKinds) =>
        /\ executions # <<>>
        /\ executions[1].tool = FirstDirectives[1].name
        /\ FirstDirectives[1].name = WORKOUT =>
             /\ executions[1].level = OrElse(fitness_level, "intermediate")
             /\ executions[1].goals = OrElse(fitness_goals, "general fitness")
        /\ (pc = "end" /\ ~caught) =>
             /\ returned[1].role = "tool"
             /\ returned[1].tool_call_id = FirstDirectives[1].id

\* C20: in keyword mode the workout tool runs with the fitness_level and
\* fitness_goals the session holds when the turn starts ("intermediate" and
\* "general fitness" when empty): the attributes change only in the step that
\* follows a completed turn, never between the submission of the user message
\* and the end of the turn, so what the user message of a turn states about
\* level or goals reaches the tool from the next turn on.
C20_ToolUsesTurnStartAttributes ==
    [][ /\ (pc # "end") => UNCHANGED <<fitness_level, fitness_goals>>
        /\ (~native_tool_calling /\ pc = "workout_tool") =>
             /\ Len(executions') = 1
             /\ executions'[1].tool = WORKOUT
             /\ executions'[1].level = OrElse(fitness_level, "intermediate")
             /\ executions'[1].goals = OrElse(fitness_goals, "general fitness")
        /\ (pc = "end" /\ messages # <<>>) =>
             /\ fitness_level' = extract_fitness_info(messages)[1]
             /\ fitness_goals' = extract_fitness_info(messages)[2]
      ]_vars

\* C20 witness: the user message of the first turn says "Beginner" and asks for
\* a routine; the workout tool of that turn ran with the level held at its start,
\* and the extraction that follows will find "beginner"
C20_Witness ==
    /\ ~native_tool_calling
    /\ pc = "end"
    /\ hist0 = <<>>
    /\ fitness_level = "intermediate"
    /\ Len(executions) = 1
    /\ executions[1].tool = WORKOUT
    /\ executions[1].level = "intermediate"
    /\ extract_fitness_info(messages)[1] = "beginner"

\* the tool-role messages among msgs
ToolRoleCount(msgs) == Cardinality({ i \in 1..Len(msgs) : msgs[i].role = "tool" })

\* the executions of this turn whose file write succeeded
ExecutedCount == Cardinality({ i \in 1..Len(executions) : executions[i].ok })

\* C21: in native mode, a turn that completes with a reply after at least one
\* tool was executed for a directive has appended one tool-role message per
\* executed tool: no tool's side effect happens in a completed turn without its
\* tool-role message in the history.
C21_ExecutedToolsRecorded ==
    (native_tool_calling /\ pc = "end"
       /\ RegisteredNames(FirstDirectives) # <<>> /\ ExecutedCount >= 1) =>
        /\ ToolRoleCount(returned) = ExecutedCount
        /\ ToolRoleCount(SubSeq(messages, Len(hist0) + 1, Len(messages)))
             = ExecutedCount

\* the positions of the messages returned in this turn that a reply can be
\* taken from: of the given role, with content that is not blank
OwnWith(role) ==
    { i \in 1..Len(returned) :
        returned[i].role = role /\ ~IsBlank(returned[i].content) }

Newest(S) == CHOOSE i \in S : \A j \in S : j <= i

\* the reply a completed turn owes the user, from its own messages
TurnReply ==
    IF OwnWith("assistant") # {} THEN returned[Newest(OwnWith("assistant"))].content
    ELSE IF OwnWith("tool") # {} THEN returned[Newest(OwnWith("tool"))].content
    ELSE DefaultNotice

\* C22: the text shown for a completed turn comes from that turn: its assistant
\* reply when that is not empty, otherwise its tool-result message, otherwise
\* the fixed notice; never the content of a message of an earlier turn.
C22_ReplyFromThisTurn ==
    [][ pc = "end" => shown' = TurnReply ]_vars

====
